---- MODULE Spec2Model ----
(***************************************************************************)
(* Model of app.py: the Streamlit invoice/quote generator.                 *)
(*                                                                         *)
(* Conventions of the model                                                *)
(*  - A Python float x is the integer x * Scale (Scale = 2^5).  Every      *)
(*    float the model draws is a binary fraction with at most three        *)
(*    fractional bits and "rate / 100" is only taken for rates whose       *)
(*    hundredth is a binary fraction (0, 25, -25), so every product and    *)
(*    sum of the code is exact in IEEE-754 binary64 and the integer        *)
(*    arithmetic below computes exactly the value the float arithmetic     *)
(*    computes (FloatsExact states it).                                    *)
(*  - A Python str that ends up in the document is a Text: a sequence of   *)
(*    pieces, one per fragment an f-string or "+" joined.  A piece keeps   *)
(*    the characters (val), where they come from (kind, src), how many     *)
(*    times it went through reshape_if_arabic (calls), whether it was      *)
(*    alone each time (solo) and how many times it was really reshaped     *)
(*    and reordered (shaped).                                              *)
(*  - TLA+ strings are ASCII: the French and Arabic dictionary values are  *)
(*    written without accents and transliterated.                          *)
(***************************************************************************)
EXTENDS Integers, Sequences, FiniteSets, TLC

VARIABLES
    items,        \* st.session_state["items"]
    language,     \* the language selectbox
    widgets,      \* the other widgets of the form
    preview,      \* the document the latest run shows in the right column
    error,        \* the message the latest run shows with st.error, or ""
    download,     \* the file the latest run offers with st.download_button
    args,         \* the arguments of a direct call of create_modern_invoice_pdf
    returned      \* what the direct call returned

vars == <<items, language, widgets, preview, error, download, args, returned>>

\* ------------------------------------------------------------- bounds
\* Longest item list of a session or of a direct call.
MaxItems == 2

\* ------------------------------------------------------------- numbers
Scale == 2^5

Abs(n) == IF n < 0 THEN -n ELSE n

Digits == <<"0", "1", "2", "3", "4", "5", "6", "7", "8", "9">>

RECURSIVE NatStr(_)
\* str(n) of a non-negative int
NatStr(n) == IF n < 10 THEN Digits[n + 1] ELSE NatStr(n \div 10) \o Digits[(n % 10) + 1]

\* str(n) of an int
IntStr(n) == IF n < 0 THEN "-" \o NatStr(-n) ELSE NatStr(n)

\* d as exactly two digits
D2(d) == Digits[((d \div 10) % 10) + 1] \o Digits[(d % 10) + 1]

\* int * float, float * float : the product, exact on the model's floats
FMul(a, b) == (a * b) \div Scale

\* float / float : the quotient, exact on the model's floats
FDiv(a, b) == (a * Scale) \div b

\* int -> float
ToFloat(n) == n * Scale

\* The hundredths nearest to the float v, ties to the even hundredth: what
\* the format specifier ".2f" does (correct rounding of the binary value,
\* round-half-even).
HalfEvenHundredths(v) ==
    LET n == v * 100
        q == n \div Scale
        r == n % Scale
    IN  IF 2 * r < Scale THEN q
        ELSE IF 2 * r > Scale THEN q + 1
        ELSE IF q % 2 = 0 THEN q ELSE q + 1

\* The hundredths nearest to the float v, ties away from zero.
HalfAwayHundredths(v) ==
    LET n == Abs(v) * 100
        q == n \div Scale
        r == n % Scale
        m == IF 2 * r >= Scale THEN q + 1 ELSE q
    IN  IF v < 0 THEN -m ELSE m

\* c hundredths written with two fractional digits
HundredthsStr(c) ==
    (IF c < 0 THEN "-" ELSE "") \o NatStr(Abs(c) \div 100) \o "." \o D2(Abs(c) % 100)

\* f"{v:.2f}"
Fmt2(v) == HundredthsStr(HalfEvenHundredths(v))

RECURSIVE FracStr(_)
\* the decimal digits of the fraction f / Scale, 0 < f < Scale
FracStr(f) == IF f = 0 THEN "" ELSE Digits[((f * 10) \div Scale) + 1] \o FracStr((f * 10) % Scale)

\* str(v) of a float, as an f-string without a format specifier writes it
FloatStr(v) ==
    (IF v < 0 THEN "-" ELSE "") \o NatStr(Abs(v) \div Scale) \o "."
        \o (IF Abs(v) % Scale = 0 THEN "0" ELSE FracStr(Abs(v) % Scale))

\* ------------------------------------------------------------- language dictionaries
\* LANGUAGES["en"]
LANGUAGES_en ==
    [document_type_label |-> "Document Type", invoice |-> "Invoice",
         quote |-> "Quote", number |-> "Number", date |-> "Date",
         due_date |-> "Due Date", from |-> "From", to |-> "To", tax_id |-> "Tax ID",
         mobile |-> "Mobile", email |-> "Email", details |-> "Details",
         description |-> "Description", quantity |-> "Quantity",
         unit_price |-> "Unit Price", vat_rate |-> "VAT (%)",
         vat_amount |-> "VAT Amount", total |-> "Total", subtotal |-> "Subtotal",
         total_vat |-> "Total VAT", payment_terms |-> "Payment Terms",
         delivery_terms |-> "Delivery Terms", accept_checks |-> "Accept Checks?",
         services_products |-> "Services / Products", add |-> "Add",
         remove |-> "Remove", download |-> "Download",
         supplier_info |-> "Supplier Information (From)",
         customer_info |-> "Customer Information (To)",
         document_info |-> "Document Information",
         additional_info |-> "Additional Information"]

\* LANGUAGES["fr"]
LANGUAGES_fr ==
    [document_type_label |-> "Type de Document", invoice |-> "Facture",
         quote |-> "Devis", number |-> "Numero", date |-> "Date",
         due_date |-> "Date d'echeance", from |-> "De", to |-> "A",
         tax_id |-> "Identifiant Fiscal", mobile |-> "Mobile", email |-> "Email",
         details |-> "Details", description |-> "Description",
         quantity |-> "Quantite", unit_price |-> "Prix Unitaire",
         vat_rate |-> "TVA (%)", vat_amount |-> "Montant TVA", total |-> "Total",
         subtotal |-> "Sous Total", total_vat |-> "TVA",
         payment_terms |-> "Conditions de Paiement",
         delivery_terms |-> "Conditions de Livraison",
         accept_checks |-> "Accepter les cheques ?",
         services_products |-> "Services / Produits", add |-> "Ajouter",
         remove |-> "Supprimer", download |-> "Telecharger",
         supplier_info |-> "Informations Fournisseur (De)",
         customer_info |-> "Informations Client (A)",
         document_info |-> "Informations du Document",
         additional_info |-> "Informations Supplementaires"]

\* LANGUAGES["ar"]
LANGUAGES_ar ==
    [document_type_label |-> "naw' almustanad", invoice |-> "fatura",
         quote |-> "'ard si'r", number |-> "alraqm", date |-> "altaarikh",
         due_date |-> "taarikh alistihqaq", from |-> "min", to |-> "ila",
         tax_id |-> "alraqm aldariibi", mobile |-> "raqm aljawwal",
         email |-> "albarid al'iilikturuni", details |-> "altafasil",
         description |-> "alwasf", quantity |-> "alkammiya",
         unit_price |-> "si'r alwahda", vat_rate |-> "nisbat aldariba",
         vat_amount |-> "mablagh aldariba", total |-> "al'iijmali",
         subtotal |-> "al'iijmali alfar'i", total_vat |-> "majmu' aldariba",
         payment_terms |-> "shurut aldaf'", delivery_terms |-> "shurut altaslim",
         accept_checks |-> "qabul alshiikat?",
         services_products |-> "alkhadamat / almuntajat", add |-> "'iidafa",
         remove |-> "'iizala", download |-> "tahmil",
         supplier_info |-> "ma'lumat almuwarrid (min)",
         customer_info |-> "ma'lumat al'amil (ila)",
         document_info |-> "ma'lumat almustanad",
         additional_info |-> "ma'lumat 'iidafiya"]

\* Mutant: the Arabic dictionary lacks the key "total_vat".
LANGUAGES_no_total_vat ==
    [en |-> LANGUAGES_en, fr |-> LANGUAGES_fr,
     ar |-> [k \in DOMAIN LANGUAGES_ar \ {"total_vat"} |-> LANGUAGES_ar[k]]]

\* LANGUAGES: language -> key -> translated string.
LANGUAGES == [en |-> LANGUAGES_en, fr |-> LANGUAGES_fr, ar |-> LANGUAGES_ar]

\* the language selectbox's options
LangChoices == {"en", "fr", "ar"}

\* DOC_TYPE_OPTIONS: language -> the two document-type names
DOC_TYPE_OPTIONS ==
    [l \in LangChoices |-> <<LANGUAGES[l]["invoice"], LANGUAGES[l]["quote"]>>]

\* ------------------------------------------------------------- text
\* One fragment of a str.
Piece(kind, src, val) ==
    [kind |-> kind, src |-> src, val |-> val, calls |-> 0, solo |-> TRUE, shaped |-> 0]

\* a data value, a literal of the program, a piece of an f-string template,
\* a formatted number
Value(src, val) == <<Piece("value", src, val)>>
Literal(val) == <<Piece("literal", "literal", val)>>
Markup(val) == <<Piece("markup", "template", val)>>
Num(src, val) == <<Piece("num", src, val)>>

\* lang_dict[key]; a missing key raises KeyError
Lookup(lang_dict, key) ==
    IF key \in DOMAIN lang_dict
    THEN <<Piece("label", key, lang_dict[key])>>
    ELSE <<Piece("KeyError", key, "")>>

\* text.strip() is empty
Blank(text) == \A i \in DOMAIN text : text[i].val \in {"", " "}

\* reshape_if_arabic(text, lang): Arabic, non-blank text is reshaped and
\* reordered as one string; any other text is returned as it is.
reshape_if_arabic(text, lang) ==
    LET passed == [i \in DOMAIN text |->
                     [text[i] EXCEPT !.calls = @ + 1, !.solo = @ /\ Len(text) = 1]]
    IN  IF lang = "ar" /\ ~Blank(text)
        THEN [i \in DOMAIN passed |-> [passed[i] EXCEPT !.shaped = @ + 1]]
        ELSE passed

\* str.upper() of the document-type names; Arabic letters have no case
UpperStr(val) ==
    CASE val = "Invoice" -> "INVOICE"
      [] val = "Quote" -> "QUOTE"
      [] val = "Facture" -> "FACTURE"
      [] val = "Devis" -> "DEVIS"
      [] OTHER -> val

\* text.upper()
upper(text) == [i \in DOMAIN text |-> [text[i] EXCEPT !.val = UpperStr(@)]]

\* ------------------------------------------------------------- dates
\* None, where a date is expected
NoDate == [d |-> 0, m |-> 0, y |-> 0]

\* date.strftime("%d/%m/%Y") if date else ""
DateStr(date) ==
    IF date /= NoDate THEN D2(date.d) \o "/" \o D2(date.m) \o "/" \o NatStr(date.y) ELSE ""

\* datetime.now().strftime('%H:%M')
TimeStr(now) == D2(now.h) \o ":" \o D2(now.mi)

\* ------------------------------------------------------------- flowables
\* ParagraphStyle(name, parent, fontName, fontSize, textColor)
ParagraphStyle(name, fontName, fontSize, textColor) ==
    [name |-> name, fontName |-> fontName, fontSize |-> fontSize, textColor |-> textColor]

Paragraph(text, style) == [type |-> "Paragraph", text |-> text, style |-> style]

Spacer(width, height) == [type |-> "Spacer", width |-> width, height |-> height]

\* RLImage(file) with drawHeight = drawWidth = 1 inch
RLImage(file, drawHeight, drawWidth) ==
    [type |-> "Image", file |-> file, drawHeight |-> drawHeight, drawWidth |-> drawWidth]

\* a table cell holding a plain str
Cell(text) == [type |-> "str", text |-> text]

\* one TableStyle command: (op, (sc, sr), (ec, er), values...)
Cmd(op, sc, sr, ec, er, val) ==
    [op |-> op, sc |-> sc, sr |-> sr, ec |-> ec, er |-> er, val |-> val]

Table(data, repeatRows, style) ==
    [type |-> "Table", data |-> data, repeatRows |-> repeatRows, style |-> style]

\* ------------------------------------------------------------- how a Table reads its style
\* a negative row or column index counts from the end
FromEnd(i, n) == IF i < 0 THEN i + n ELSE i

\* the command covers the cell in row r, column c (both from 0)
Covers(cmd, r, c, nrows, ncols) ==
    /\ FromEnd(cmd.sr, nrows) <= r /\ r <= FromEnd(cmd.er, nrows)
    /\ FromEnd(cmd.sc, ncols) <= c /\ c <= FromEnd(cmd.ec, ncols)

\* the commands op of the table that cover the cell, by position in the style
Hits(table, op, r, c) ==
    {k \in DOMAIN table.style :
        /\ table.style[k].op = op
        /\ Covers(table.style[k], r, c, Len(table.data), Len(table.data[1]))}

\* the font a plain-str cell is drawn in: the last FONTNAME command that
\* covers it, the table's default font without one
CellFont(table, r, c) ==
    LET hits == Hits(table, "FONTNAME", r, c)
    IN  IF hits = {} THEN "Helvetica"
        ELSE table.style[CHOOSE k \in hits : \A j \in hits : j <= k].val[1]

\* grid lines are drawn around the cell
HasGrid(table, r, c) == Hits(table, "GRID", r, c) /= {}

\* a line is drawn above the cell, in the colour returned ("" without one)
LineAbove(table, r, c) ==
    LET hits == Hits(table, "LINEABOVE", r, c)
    IN  IF hits = {} THEN ""
        ELSE table.style[CHOOSE k \in hits : \A j \in hits : j <= k].val[2]

\* ------------------------------------------------------------- create_modern_invoice_pdf
\* the font of the document
font_name(lang_choice) == IF lang_choice = "ar" THEN "Amiri" ELSE "Helvetica"

\* the three styles added to the sample style sheet
Styles(lang_choice, primary_color) ==
    [CustomTitle |-> ParagraphStyle("CustomTitle", font_name(lang_choice), 24, primary_color),
     SubHeading |-> ParagraphStyle("SubHeading", font_name(lang_choice), 14, primary_color),
     NormalArabic |-> ParagraphStyle("NormalArabic", font_name(lang_choice), 10, "black")]

\* date_time_str: the issue date, a space and the time of the call
date_time_str(data, now) ==
    Value("invoice_date", DateStr(data.invoice_date))
        \o <<Piece("markup", "date_time_str", " ")>> \o <<Piece("clock", "now", TimeStr(now))>>

\* header_table: the logo beside the title, number, date and due date
header_table(data, lang_dict, primary_color, lang_choice, now) ==
    LET styles == Styles(lang_choice, primary_color)
        doc_title == reshape_if_arabic(Value("doc_type", data.doc_type), lang_choice)
        number_label == reshape_if_arabic(Lookup(lang_dict, "number"), lang_choice)
        date_label == reshape_if_arabic(Lookup(lang_dict, "date"), lang_choice)
        due_date_label == reshape_if_arabic(Lookup(lang_dict, "due_date"), lang_choice)
        due_date_str == Value("invoice_due_date", DateStr(data.invoice_due_date))
        logo == IF data.logo /= ""
                THEN RLImage(data.logo, 72, 72)
                ELSE Paragraph(<<>>, styles.NormalArabic)
        header_html ==
            Markup("<font color=\"" \o primary_color \o "\" size=\"18\"><b>")
            \o upper(doc_title)
            \o Markup("</b></font><br/><font color=\"#666666\">")
            \o number_label \o Markup(": ")
            \o reshape_if_arabic(Value("invoice_number", data.invoice_number), lang_choice)
            \o Markup("<br/>")
            \o date_label \o Markup(": ")
            \o reshape_if_arabic(date_time_str(data, now), lang_choice)
            \o Markup("<br/>")
            \o due_date_label \o Markup(": ")
            \o reshape_if_arabic(due_date_str, lang_choice)
            \o Markup("</font>")
    IN  Table(<< <<logo, Paragraph(header_html, styles.NormalArabic)>> >>, 0,
              << Cmd("ALIGN", 0, 0, 0, 0, <<"LEFT">>),
                 Cmd("ALIGN", -1, -1, -1, -1, <<"RIGHT">>),
                 Cmd("VALIGN", 0, 0, -1, -1, <<"TOP">>) >>)

\* details_table: the supplier beside the customer
details_table(data, lang_dict, primary_color, lang_choice) ==
    LET styles == Styles(lang_choice, primary_color)
        from_label == reshape_if_arabic(Lookup(lang_dict, "from"), lang_choice)
        to_label == reshape_if_arabic(Lookup(lang_dict, "to"), lang_choice)
        tax_id_label == reshape_if_arabic(Lookup(lang_dict, "tax_id"), lang_choice)
        mobile_label == reshape_if_arabic(Lookup(lang_dict, "mobile"), lang_choice)
        email_label == reshape_if_arabic(Lookup(lang_dict, "email"), lang_choice)
        supplier_html ==
            Markup("<font color=\"" \o primary_color \o "\"><b>")
            \o from_label \o Markup(":</b></font><br/>")
            \o reshape_if_arabic(Value("supplier_name", data.supplier_name), lang_choice)
            \o Markup("<br/>")
            \o reshape_if_arabic(Value("supplier_address", data.supplier_address), lang_choice)
            \o Markup("<br/>")
            \o tax_id_label \o Markup(": ")
            \o reshape_if_arabic(Value("supplier_tax_id", data.supplier_tax_id), lang_choice)
            \o Markup("<br/>")
            \o mobile_label \o Markup(": ")
            \o reshape_if_arabic(Value("supplier_mobile", data.supplier_mobile), lang_choice)
            \o Markup("<br/>")
            \o email_label \o Markup(": ")
            \o reshape_if_arabic(Value("supplier_email", data.supplier_email), lang_choice)
        customer_html ==
            Markup("<font color=\"" \o primary_color \o "\"><b>")
            \o to_label \o Markup(":</b></font><br/>")
            \o reshape_if_arabic(Value("customer_name", data.customer_name), lang_choice)
            \o Markup("<br/>")
            \o reshape_if_arabic(Value("customer_address", data.customer_address), lang_choice)
    IN  Table(<< <<Paragraph(supplier_html, styles.NormalArabic),
                   Paragraph(customer_html, styles.NormalArabic)>> >>, 0,
              << Cmd("ALIGN", 0, 0, -1, -1, <<"LEFT">>),
                 Cmd("VALIGN", 0, 0, -1, -1, <<"TOP">>),
                 Cmd("BOTTOMPADDING", 0, 0, -1, -1, <<20>>) >>)

\* the per-line amounts of the loop body
subtotal(item) == FMul(ToFloat(item.quantity), item.unit_price)

vat_amount(item) == FMul(subtotal(item), FDiv(item.vat_rate, ToFloat(100)))

line_total(item) == subtotal(item) + vat_amount(item)

\* row_data of one item: the shaped description and five formatted numbers
row_data(item, lang_choice) ==
    << Cell(reshape_if_arabic(Value("description", item.description), lang_choice)),
       Cell(Num("quantity", IntStr(item.quantity))),
       Cell(Num("unit_price", Fmt2(item.unit_price))),
       Cell(Num("vat_rate", FloatStr(item.vat_rate) \o "%")),
       Cell(Num("vat_amount", Fmt2(vat_amount(item)))),
       Cell(Num("line_total", Fmt2(line_total(item)))) >>

\* Mutant: the VAT amounts are not accumulated.
LoopBody_vat_dropped(acc, item, lang_choice) ==
    [items_data |-> Append(acc.items_data, row_data(item, lang_choice)),
     total_without_vat |-> acc.total_without_vat + subtotal(item),
     total_vat |-> acc.total_vat]

\* one pass of "for item in items": the totals grow, the row is appended
LoopBody(acc, item, lang_choice) ==
    [items_data |-> Append(acc.items_data, row_data(item, lang_choice)),
     total_without_vat |-> acc.total_without_vat + subtotal(item),
     total_vat |-> acc.total_vat + vat_amount(item)]

RECURSIVE ItemsLoop(_, _, _, _)
\* "for item in items", from the i-th item on
ItemsLoop(acc, its, i, lang_choice) ==
    IF i > Len(its) THEN acc
    ELSE ItemsLoop(LoopBody(acc, its[i], lang_choice), its, i + 1, lang_choice)

\* the three rows that close the item table
totals_rows(acc, lang_dict, lang_choice) ==
    LET grand_total == acc.total_without_vat + acc.total_vat
        lbl_subtotal == reshape_if_arabic(Lookup(lang_dict, "subtotal"), lang_choice)
        lbl_total_vat == reshape_if_arabic(Lookup(lang_dict, "total_vat"), lang_choice)
        lbl_total == reshape_if_arabic(Lookup(lang_dict, "total"), lang_choice)
        empty == Cell(<<>>)
    IN  << <<empty, empty, empty, empty, Cell(lbl_subtotal \o Markup(":")),
             Cell(Num("total_without_vat", Fmt2(acc.total_without_vat)))>>,
           <<empty, empty, empty, empty, Cell(lbl_total_vat \o Markup(":")),
             Cell(Num("total_vat", Fmt2(acc.total_vat)))>>,
           <<empty, empty, empty, empty, Cell(lbl_total \o Markup(":")),
             Cell(Num("grand_total", Fmt2(grand_total)))>> >>

\* the style of the item table
items_table_style(primary_color, lang_choice) ==
    << Cmd("BACKGROUND", 0, 0, -1, 0, <<primary_color>>),
       Cmd("TEXTCOLOR", 0, 0, -1, 0, <<"whitesmoke">>),
       Cmd("ALIGN", 0, 0, -1, 0, <<"CENTER">>),
       Cmd("FONTNAME", 0, 0, -1, 0, <<font_name(lang_choice)>>),
       Cmd("FONTSIZE", 0, 0, -1, 0, <<12>>),
       Cmd("BOTTOMPADDING", 0, 0, -1, 0, <<12>>),
       Cmd("ALIGN", 1, 1, -1, -1, <<"RIGHT">>),
       Cmd("GRID", 0, 0, -1, -2, <<"0.5", "#CCCCCC">>),
       Cmd("FONTNAME", -2, -3, -1, -1, <<font_name(lang_choice)>>),
       Cmd("LINEABOVE", -2, -3, -1, -3, <<1, primary_color>>) >>

\* Mutant: the table is built without repeatRows.
ItemsTable_no_repeat(items_data, style) == Table(items_data, 0, style)

\* Table(items_data, repeatRows=1) with its style set
ItemsTable(items_data, style) == Table(items_data, 1, style)

\* items_table: the header row, one row per item, the three totals rows
items_table(its, lang_dict, primary_color, lang_choice) ==
    LET hdr_description == reshape_if_arabic(Lookup(lang_dict, "description"), lang_choice)
        hdr_quantity == reshape_if_arabic(Lookup(lang_dict, "quantity"), lang_choice)
        hdr_unit_price == reshape_if_arabic(Lookup(lang_dict, "unit_price"), lang_choice)
        hdr_vat_rate == reshape_if_arabic(Lookup(lang_dict, "vat_rate"), lang_choice)
        hdr_vat_amount == reshape_if_arabic(Lookup(lang_dict, "vat_amount"), lang_choice)
        hdr_total == reshape_if_arabic(Lookup(lang_dict, "total"), lang_choice)
        header == << Cell(hdr_description), Cell(hdr_quantity), Cell(hdr_unit_price),
                     Cell(hdr_vat_rate), Cell(hdr_vat_amount), Cell(hdr_total) >>
        acc == ItemsLoop([items_data |-> <<header>>, total_without_vat |-> 0,
                          total_vat |-> 0], its, 1, lang_choice)
    IN  ItemsTable(acc.items_data \o totals_rows(acc, lang_dict, lang_choice),
                   items_table_style(primary_color, lang_choice))

\* Mutant: an absent payment-terms field leaves its spacer behind
trailing_blocks_placeholder(data, lang_dict, primary_color, lang_choice) ==
    LET styles == Styles(lang_choice, primary_color)
        payment ==
            IF data.payment_terms /= ""
            THEN << Spacer(1, 20),
                    Paragraph(Markup("<b>")
                              \o reshape_if_arabic(Lookup(lang_dict, "payment_terms"), lang_choice)
                              \o Markup("</b>:"), styles.SubHeading),
                    Paragraph(reshape_if_arabic(Value("payment_terms", data.payment_terms),
                                                lang_choice), styles.NormalArabic) >>
            ELSE << Spacer(1, 20) >>
        delivery ==
            IF data.delivery_terms /= ""
            THEN << Spacer(1, 10),
                    Paragraph(Markup("<b>")
                              \o reshape_if_arabic(Lookup(lang_dict, "delivery_terms"), lang_choice)
                              \o Markup("</b>:"), styles.SubHeading),
                    Paragraph(reshape_if_arabic(Value("delivery_terms", data.delivery_terms),
                                                lang_choice), styles.NormalArabic) >>
            ELSE <<>>
        checks ==
            IF data.accept_checks
            THEN << Spacer(1, 10),
                    Paragraph(Markup("<b>")
                              \o reshape_if_arabic(Lookup(lang_dict, "accept_checks"), lang_choice)
                              \o Markup("</b> ")
                              \o reshape_if_arabic(Literal("Yes"), lang_choice),
                              styles.NormalArabic) >>
            ELSE <<>>
    IN  payment \o delivery \o checks

\* the blocks after the item table: payment terms, delivery terms, checks
trailing_blocks(data, lang_dict, primary_color, lang_choice) ==
    LET styles == Styles(lang_choice, primary_color)
        payment ==
            IF data.payment_terms /= ""
            THEN << Spacer(1, 20),
                    Paragraph(Markup("<b>")
                              \o reshape_if_arabic(Lookup(lang_dict, "payment_terms"), lang_choice)
                              \o Markup("</b>:"), styles.SubHeading),
                    Paragraph(reshape_if_arabic(Value("payment_terms", data.payment_terms),
                                                lang_choice), styles.NormalArabic) >>
            ELSE <<>>
        delivery ==
            IF data.delivery_terms /= ""
            THEN << Spacer(1, 10),
                    Paragraph(Markup("<b>")
                              \o reshape_if_arabic(Lookup(lang_dict, "delivery_terms"), lang_choice)
                              \o Markup("</b>:"), styles.SubHeading),
                    Paragraph(reshape_if_arabic(Value("delivery_terms", data.delivery_terms),
                                                lang_choice), styles.NormalArabic) >>
            ELSE <<>>
        checks ==
            IF data.accept_checks
            THEN << Spacer(1, 10),
                    Paragraph(Markup("<b>")
                              \o reshape_if_arabic(Lookup(lang_dict, "accept_checks"), lang_choice)
                              \o Markup("</b> ")
                              \o reshape_if_arabic(Literal("Yes"), lang_choice),
                              styles.NormalArabic) >>
            ELSE <<>>
    IN  payment \o delivery \o checks

\* story: the flowables in the order they are appended
story(data, its, lang_dict, primary_color, lang_choice, now) ==
    << header_table(data, lang_dict, primary_color, lang_choice, now),
       Spacer(1, 20),
       details_table(data, lang_dict, primary_color, lang_choice),
       Spacer(1, 20),
       Paragraph(reshape_if_arabic(Lookup(lang_dict, "details"), lang_choice),
                 Styles(lang_choice, primary_color).SubHeading),
       items_table(its, lang_dict, primary_color, lang_choice) >>
    \o trailing_blocks(data, lang_dict, primary_color, lang_choice)

\* ------------------------------------------------------------- doc.build
\* The height of a page's frame.  The model's page is small, so that a table
\* of a few rows spans several pages.
PageHeight == 70

\* the height of row r (from 0) of a table of plain-str cells: one line of
\* the default leading between the default top padding and the bottom
\* padding the style gives the row
RowHeight(table, r) ==
    LET hits == Hits(table, "BOTTOMPADDING", r, 0)
        bottom == IF hits = {} THEN 3
                  ELSE table.style[CHOOSE k \in hits : \A j \in hits : j <= k].val[1]
    IN  12 + 3 + bottom

RECURSIVE Fitting(_, _, _)
\* how many of the leading rows (given by their indices) fit in avail
Fitting(table, rows, avail) ==
    IF rows = <<>> \/ RowHeight(table, Head(rows)) > avail THEN 0
    ELSE 1 + Fitting(table, Tail(rows), avail - RowHeight(table, Head(rows)))

RECURSIVE Flow(_, _, _, _, _)
\* The table's rows `rows` (indices from 0 into table.data) are placed in a
\* frame with avail left.  A table that fits is drawn whole.  One that does
\* not is split between rows: the rows that fit stay, the repeated rows and
\* the rest go to the next page.  A table of which no more than the repeated
\* rows fit is postponed to the next page, and is a layout error there.
Flow(table, rows, avail, postponed, pages) ==
    LET n == Fitting(table, rows, avail)
    IN  IF n = Len(rows) THEN [pages |-> Append(pages, rows), error |-> ""]
        ELSE IF n <= table.repeatRows
        THEN IF postponed THEN [pages |-> <<>>, error |-> "LayoutError"]
             ELSE Flow(table, rows, PageHeight, TRUE, pages)
        ELSE Flow(table,
                  SubSeq(rows, 1, table.repeatRows) \o SubSeq(rows, n + 1, Len(rows)),
                  PageHeight, FALSE, Append(pages, SubSeq(rows, 1, n)))

\* doc.build(story), for the item table: the rows drawn on each page the
\* table reaches.  room is the height left in the first page's frame when
\* the table's turn comes.
build(flowables, room) ==
    LET table == flowables[6]
    IN  Flow(table, [i \in 1..Len(table.data) |-> i - 1], room, FALSE, <<>>)

\* create_modern_invoice_pdf(data, items, lang_dict, primary_color, lang_choice):
\* the story and the pages built from it.  now is the reading of the clock
\* the call takes (datetime.now()).
create_modern_invoice_pdf(data, its, lang_dict, primary_color, lang_choice, now, room) ==
    LET flowables == story(data, its, lang_dict, primary_color, lang_choice, now)
        built == build(flowables, room)
    IN  [story |-> flowables, pages |-> built.pages, error |-> built.error]

\* ------------------------------------------------------------- inputs
\* the clock readings a call can take, in the order of time
Times == << [h |-> 9, mi |-> 59], [h |-> 10, mi |-> 0] >>

\* st.number_input(min_value = min): the entries the widget lets through
number_input(min_value, entries) == {v \in entries : v >= min_value}

\* what the user tries to enter as quantity (an int), unit price and VAT
\* rate (floats: -10.0, 0.125, 10.0 and -25.0, 25.0)
QuantityEntries == {0, 1, 3}
UnitPriceEntries == {ToFloat(-10), Scale \div 8, ToFloat(10)}
VatRateEntries == {ToFloat(-25), ToFloat(25)}

\* the items the add-item form can submit
FormItems ==
    [description : {"Widget"},
     quantity : number_input(1, QuantityEntries),
     unit_price : number_input(ToFloat(0), UnitPriceEntries),
     vat_rate : number_input(ToFloat(0), VatRateEntries)]

\* an item dict
Item(description, quantity, unit_price, vat_rate) ==
    [description |-> description, quantity |-> quantity,
     unit_price |-> unit_price, vat_rate |-> vat_rate]

\* the items a direct caller of create_modern_invoice_pdf puts in its list:
\* three the form can submit or could with other entries (3 x 10.00 at 25%,
\* 3 x 0.125 at 25%, 1 x 0.125 at 0%) and three it does not let through
CallItems ==
    { Item("Widget", 3, ToFloat(10), ToFloat(25)),
      Item("Widget", 3, Scale \div 8, ToFloat(25)),
      Item("Widget", 1, Scale \div 8, ToFloat(0)),
      Item("Widget", 0, ToFloat(10), ToFloat(25)),
      Item("Widget", 1, ToFloat(-10), ToFloat(25)),
      Item("Widget", 1, ToFloat(10), ToFloat(-25)) }

RECURSIVE Lists(_, _)
\* the lists of at most n elements of S
Lists(S, n) ==
    IF n = 0 THEN {<<>>}
    ELSE LET shorter == Lists(S, n - 1)
         IN  shorter \cup {Append(l, x) : l \in shorter, x \in S}

\* the default colour of the colour picker
DefaultColor == "#1a237e"

\* the values of the other widgets of the form; the document type, the due
\* date and the logo are varied together
Forms ==
    {f \in [doc : {1, 2}, due : {NoDate, [d |-> 2, m |-> 12, y |-> 2026]},
            logo : {"", "logo.png"}, payment_terms : {"", "Net 30"},
            delivery_terms : {"", "DAP"}, accept_checks : BOOLEAN] :
        /\ (f.doc = 2) = (f.due /= NoDate)
        /\ (f.doc = 2) = (f.logo /= "")}

\* the widgets as the first run of the script finds them
DefaultForm ==
    [doc |-> 1, due |-> NoDate, logo |-> "", payment_terms |-> "",
     delivery_terms |-> "", accept_checks |-> FALSE]

\* every widget filled in
FullForm ==
    [doc |-> 2, due |-> [d |-> 2, m |-> 12, y |-> 2026], logo |-> "logo.png",
     payment_terms |-> "Net 30", delivery_terms |-> "DAP", accept_checks |-> TRUE]

\* the data dict main() prepares from the widgets
Data(lang, frm) ==
    [doc_type |-> DOC_TYPE_OPTIONS[lang][frm.doc],
     supplier_name |-> "Neuratech Solutions",
     supplier_address |-> "30 rue 6667",
     supplier_tax_id |-> "122344",
     supplier_mobile |-> "",
     supplier_email |-> "",
     logo |-> frm.logo,
     customer_name |-> "ACME",
     customer_address |-> "1 Main Street",
     invoice_number |-> "1b9d6bcd",
     invoice_date |-> [d |-> 2, m |-> 11, y |-> 2026],
     invoice_due_date |-> frm.due,
     payment_terms |-> frm.payment_terms,
     delivery_terms |-> frm.delivery_terms,
     accept_checks |-> frm.accept_checks]

\* ------------------------------------------------------------- main
NoPdf == [story |-> <<>>, pages |-> <<>>, error |-> ""]
NoDownload == [data |-> NoPdf, file_name |-> "", mime |-> ""]
NoArgs == [data |-> Data("en", DefaultForm), items |-> <<>>, lang_choice |-> "", now |-> 0,
           room |-> 0]

\* st.session_state["items"].pop(idx)
Pop(its, idx) == [i \in 1..(Len(its) - 1) |-> IF i < idx THEN its[i] ELSE its[i + 1]]

\* the st.error message of the download branch
ErrorMessage(lang) ==
    CASE lang = "en" -> "Please add at least one item."
      [] lang = "fr" -> "Veuillez ajouter au moins un article."
      [] OTHER -> "alraja' 'iidafat 'unsur wahid ealaa al'aqal."

\* Mutant: the download branch does not look at the list.
no_items_unchecked(its) == FALSE

\* len(st.session_state["items"]) == 0
no_items(its) == Len(its) = 0

\* the height left for the item table on the first page
Room == PageHeight - 20

\* One run of the script.  ev is the widget event that caused it, lang and
\* frm the widget values it reads, t1 and t2 the clock readings of the
\* preview call and of the download call.
main(ev, lang, frm, t1, t2) ==
    LET lang_dict == LANGUAGES[lang]
        data == Data(lang, frm)
        added == IF ev.type = "add" THEN Append(items, ev.item) ELSE items
        its == IF ev.type = "remove" THEN Pop(added, ev.idx) ELSE added
    IN  /\ items' = its
        /\ language' = lang
        /\ widgets' = frm
        /\ preview' = create_modern_invoice_pdf(data, its, lang_dict, DefaultColor, lang, Times[t1], Room)
        /\ IF ev.type = "download"
           THEN IF no_items(its)
                THEN /\ error' = ErrorMessage(lang)
                     /\ download' = NoDownload
                ELSE /\ error' = ""
                     /\ download' =
                          [data |-> create_modern_invoice_pdf(data, its, lang_dict,
                                                             DefaultColor, lang, Times[t2], Room),
                           file_name |-> data.doc_type \o "_" \o data.invoice_number \o ".pdf",
                           mime |-> "application/pdf"]
           ELSE /\ error' = ""
                /\ download' = NoDownload
        /\ UNCHANGED <<args, returned>>

\* the user picks another language
SelectLanguage ==
    \E l \in LangChoices \ {language} : \E t \in DOMAIN Times :
        main([type |-> "language"], l, widgets, t, t)

\* the user changes other widgets of the form
EditForm ==
    \E f \in {DefaultForm, FullForm} \ {widgets} : \E t \in DOMAIN Times :
        main([type |-> "form"], language, f, t, t)

\* the user submits the add-item form
AddItem ==
    /\ Len(items) < MaxItems
    /\ \E item \in FormItems : \E t \in DOMAIN Times :
        main([type |-> "add", item |-> item], language, widgets, t, t)

\* the user presses the remove button of the idx-th line (idx from 0)
RemoveItem ==
    \E idx \in 0..(Len(items) - 1) : \E t \in DOMAIN Times :
        main([type |-> "remove", idx |-> idx + 1], language, widgets, t, t)

\* the user presses the download button
Download ==
    \E t1 \in DOMAIN Times : \E t2 \in DOMAIN Times :
        /\ t1 <= t2
        /\ main([type |-> "download"], language, widgets, t1, t2)

\* the first run of the script
Init ==
    /\ items = <<>>
    /\ language = "en"
    /\ widgets = DefaultForm
    /\ \E t \in DOMAIN Times :
         preview = create_modern_invoice_pdf(Data("en", DefaultForm), <<>>, LANGUAGES["en"],
                                             DefaultColor, "en", Times[t], Room)
    /\ error = ""
    /\ download = NoDownload
    /\ args = NoArgs
    /\ returned = NoPdf

Next == SelectLanguage \/ EditForm \/ AddItem \/ RemoveItem \/ Download

Spec == Init /\ [][Next]_vars

\* ------------------------------------------------------------- the function alone
\* the argument lists of a direct call: the data of the forms in one of the
\* languages, a list of items, a clock reading now and a height room left
\* on the first page
CallArgs(langs, forms, lists, rooms) ==
    { [data |-> Data(lf[1], lf[2]), items |-> its, lang_choice |-> lf[1],
       now |-> tr[1], room |-> tr[2]] :
      lf \in langs \X forms, its \in lists, tr \in (DOMAIN Times) \X rooms }

\* the variables of the session, untouched by a direct call
NoSession ==
    /\ items = <<>>
    /\ language = "en"
    /\ widgets = DefaultForm
    /\ preview = NoPdf
    /\ error = ""
    /\ download = NoDownload

\* a caller has its arguments ready
PdfInit ==
    /\ args \in CallArgs(LangChoices, Forms, Lists(CallItems, MaxItems), {Room})
    /\ returned = NoPdf
    /\ NoSession

\* the call: create_modern_invoice_pdf(data, items, lang_dict, primary_color, lang_choice)
Call ==
    /\ returned = NoPdf
    /\ returned' = create_modern_invoice_pdf(args.data, args.items, LANGUAGES[args.lang_choice],
                                             DefaultColor, args.lang_choice, Times[args.now],
                                             args.room)
    /\ UNCHANGED <<items, language, widgets, preview, error, download, args>>

PdfNext == Call

PdfSpec == PdfInit /\ [][PdfNext]_vars

\* ------------------------------------------------------------- the function, for page breaks
\* the heights that can be left on the first page when the item table's turn
\* comes: too little for the header row, enough for the header row alone,
\* for the header row and one more, and a whole page
Rooms == {PageHeight - 50, PageHeight - 40, PageHeight - 20, PageHeight}

\* a caller has its arguments ready; the first page is filled to any degree
BuildInit ==
    /\ args \in CallArgs({"ar"}, {FullForm}, Lists(FormItems, MaxItems), Rooms)
    /\ returned = NoPdf
    /\ NoSession

BuildSpec == BuildInit /\ [][PdfNext]_vars

\* ------------------------------------------------------------- the floats of the model
\* no product or quotient the code takes of the item loses a bit
ExactItem(item) ==
    /\ (item.vat_rate * Scale) % ToFloat(100) = 0
    /\ (subtotal(item) * FDiv(item.vat_rate, ToFloat(100))) % Scale = 0

\* the integer arithmetic of the model is the float arithmetic of the code
FloatsExact ==
    /\ \A i \in DOMAIN items : ExactItem(items[i])
    /\ \A i \in DOMAIN args.items : ExactItem(args.items[i])

\* ------------------------------------------------------------- reading a document
\* the item table of a document and its rows
ItemsTableOf(pdf) == pdf.story[6]
Rows(pdf) == ItemsTableOf(pdf).data

\* the characters of a cell that holds one fragment
StrOf(cell) == cell.text[1].val

\* the text of a table cell; an image has none
CellText(cell) == IF cell.type = "Image" THEN <<>> ELSE cell.text

\* the texts of a flowable: of a paragraph, of the cells of a table
TextsOf(b) ==
    IF b.type = "Paragraph" THEN {b.text}
    ELSE IF b.type = "Table"
    THEN {CellText(b.data[r][c]) : r \in DOMAIN b.data, c \in 1..Len(b.data[1])} \ {<<>>}
    ELSE {}

\* the fragments a document is made of
Pieces(pdf) ==
    UNION { {t[i] : i \in DOMAIN t} :
            t \in UNION {TextsOf(pdf.story[k]) : k \in DOMAIN pdf.story} }

\* the fonts the non-empty texts of a flowable are set in
FontsOf(b) ==
    IF b.type = "Paragraph" THEN (IF b.text = <<>> THEN {} ELSE {b.style.fontName})
    ELSE IF b.type = "Table"
    THEN { IF b.data[rc[1]][rc[2]].type = "Paragraph"
           THEN b.data[rc[1]][rc[2]].style.fontName
           ELSE CellFont(b, rc[1] - 1, rc[2] - 1) :
           rc \in {x \in (DOMAIN b.data) \X (1..Len(b.data[1])) :
                     CellText(b.data[x[1]][x[2]]) /= <<>>} }
    ELSE {}

\* ------------------------------------------------------------- claims
\* C1: a download taken while the session list is empty ends in the error
\* message and offers no file; a file is offered only when the list holds at
\* least one item, and the document offered has a row for each.
C1_DownloadNeedsItems ==
    [][ /\ (Download /\ Len(items') = 0) => (error' /= "" /\ download' = NoDownload)
        /\ download' /= NoDownload =>
             /\ Len(items') >= 1
             /\ Len(Rows(download'.data)) = Len(items') + 4
        /\ error' /= "" => (Len(items') = 0 /\ download' = NoDownload) ]_vars

\* C1 witness: an item was added and removed again, then download was pressed
C1_Witness ==
    /\ items = <<>>
    /\ error = ErrorMessage(language)
    /\ download = NoDownload
    /\ language = "fr"

\* C2 (as claimed): the two calls a download run makes with identical
\* arguments, one for the preview and one for the file, return the same.
C2_SameArgumentsSameDocument ==
    download /= NoDownload => download.data = preview

\* the exact amounts of an item, in Scale-ths
ExactSubtotal(item) == item.quantity * item.unit_price
ExactVat(item) == (ExactSubtotal(item) * item.vat_rate) \div (100 * Scale)

RECURSIVE SumOf(_, _)
\* the sum of Amount over the items, the last item first
SumOf(Amount(_), its) ==
    IF its = <<>> THEN 0
    ELSE Amount(its[Len(its)]) + SumOf(Amount, SubSeq(its, 1, Len(its) - 1))

\* the k-th totals row of a document: four empty cells, label, ":" and value
IsTotalsRow(row, key, value) ==
    /\ \A c \in 1..4 : row[c].text = <<>>
    /\ Len(row[5].text) = 2
    /\ row[5].text[1].kind = "label" /\ row[5].text[1].src = key
    /\ row[5].text[2].val = ":"
    /\ StrOf(row[6]) = value

\* C3: the item table is the header row, one row per item whose line total
\* is its subtotal plus its VAT, and exactly three totals rows: the sum of
\* the subtotals, the sum of the VAT amounts, and their sum; without items
\* the three rows are there and show 0.00.
C3_Totals ==
    returned /= NoPdf =>
        LET rows == Rows(returned)
            n == Len(args.items)
            sub == SumOf(ExactSubtotal, args.items)
            vat == SumOf(ExactVat, args.items)
        IN  /\ Len(rows) = n + 4
            /\ \A i \in 1..n :
                 /\ StrOf(rows[i + 1][5]) = Fmt2(ExactVat(args.items[i]))
                 /\ StrOf(rows[i + 1][6]) =
                      Fmt2(ExactSubtotal(args.items[i]) + ExactVat(args.items[i]))
            /\ IsTotalsRow(rows[n + 2], "subtotal", Fmt2(sub))
            /\ IsTotalsRow(rows[n + 3], "total_vat", Fmt2(vat))
            /\ IsTotalsRow(rows[n + 4], "total", Fmt2(sub + vat))
            /\ n = 0 => \A k \in 2..4 : StrOf(rows[k][6]) = "0.00"

\* C3 witness: two items of quantity 3 at 10.00 with 25% VAT
C3_Witness ==
    /\ returned /= NoPdf
    /\ args.items = << Item("Widget", 3, ToFloat(10), ToFloat(25)),
                       Item("Widget", 3, ToFloat(10), ToFloat(25)) >>
    /\ StrOf(Rows(returned)[4][6]) = "60.00"
    /\ StrOf(Rows(returned)[5][6]) = "15.00"
    /\ StrOf(Rows(returned)[6][6]) = "75.00"

\* v rounded once to hundredths, ties away from zero
HalfAway(v) == HundredthsStr(HalfAwayHundredths(v))

\* C4 (as claimed): every amount shown is the exact value rounded once to
\* two fractional digits, ties away from zero.
C4_HalfAwayFromZero ==
    returned /= NoPdf =>
        LET rows == Rows(returned)
            n == Len(args.items)
            sub == SumOf(ExactSubtotal, args.items)
            vat == SumOf(ExactVat, args.items)
        IN  /\ \A i \in 1..n :
                 /\ StrOf(rows[i + 1][3]) = HalfAway(args.items[i].unit_price)
                 /\ StrOf(rows[i + 1][5]) = HalfAway(ExactVat(args.items[i]))
                 /\ StrOf(rows[i + 1][6]) =
                      HalfAway(ExactSubtotal(args.items[i]) + ExactVat(args.items[i]))
            /\ StrOf(rows[n + 2][6]) = HalfAway(sub)
            /\ StrOf(rows[n + 3][6]) = HalfAway(vat)
            /\ StrOf(rows[n + 4][6]) = HalfAway(sub + vat)

\* C5 (as claimed): no item with a quantity below 1, a negative unit price
\* or a negative VAT rate is composed into a row of the item table.
C5_OnlyLegalItemsInRows ==
    returned /= NoPdf =>
        \A i \in 1..(Len(Rows(returned)) - 4) :
            /\ args.items[i].quantity >= 1
            /\ args.items[i].unit_price >= 0
            /\ args.items[i].vat_rate >= 0

\* the label keys the claim lists
ClaimedKeys ==
    {"document_type", "number", "date", "due_date", "from", "to", "tax_id", "mobile",
     "email", "details", "description", "quantity", "unit_price", "vat_rate",
     "vat_amount", "total", "subtotal", "total_vat", "payment_terms", "delivery_terms",
     "accept_checks", "services_products"}

\* the key is in the dictionary of every language, with a non-empty string
InEveryDictionary(key) ==
    \A l \in LangChoices : key \in DOMAIN LANGUAGES[l] /\ LANGUAGES[l][key] /= ""

\* C6 (as claimed): every listed key, "document_type" among them, is in all
\* three dictionaries with a non-empty string.
C6_ClaimedKeysComplete ==
    returned /= NoPdf => \A key \in ClaimedKeys : InEveryDictionary(key)

\* C6 (amended): the key of the document-type label is "document_type_label";
\* it and every other listed key are in all three dictionaries with a
\* non-empty string, and so is every key a generation call looked up: no
\* lookup of the call hit a missing key.
C6_KeysComplete ==
    /\ \A key \in (ClaimedKeys \ {"document_type"}) \cup {"document_type_label"} :
         InEveryDictionary(key)
    /\ "document_type" \notin UNION {DOMAIN LANGUAGES[l] : l \in LangChoices}
    /\ returned /= NoPdf =>
         \A p \in Pieces(returned) :
            /\ p.kind /= "KeyError"
            /\ p.kind = "label" => (InEveryDictionary(p.src) /\ p.val /= "")

\* C6 witness: an Arabic document with every optional block, whose labels
\* include those of the totals rows and of the terms
C6_Witness ==
    /\ returned /= NoPdf
    /\ args.lang_choice = "ar"
    /\ {"total_vat", "payment_terms", "delivery_terms", "accept_checks", "due_date"}
          \subseteq {p.src : p \in {q \in Pieces(returned) : q.kind = "label"}}

\* C7 (as claimed): every label, data value and literal of the document went
\* through reshape_if_arabic exactly once and alone; no formatted number and
\* no piece of a template went through it.
C7_EachFragmentShapedAlone ==
    returned /= NoPdf =>
        \A p \in Pieces(returned) :
            /\ p.kind \in {"label", "value", "literal", "clock"} => (p.calls = 1 /\ p.solo)
            /\ p.kind \in {"num", "markup"} => p.calls = 0

\* C8 (as claimed): every non-empty text of the document is set in the one
\* font resolved from the language.
C8_OneFont ==
    returned /= NoPdf =>
        \A k \in DOMAIN returned.story :
            FontsOf(returned.story[k]) \subseteq {font_name(args.lang_choice)}

\* C9 (as claimed): no cell of the three totals rows has grid lines, and the
\* rule in the accent colour is drawn above the first totals row.
C9_NoGridOnTotals ==
    returned /= NoPdf =>
        LET table == ItemsTableOf(returned)
            nrows == Len(table.data)
        IN  /\ \A r \in (nrows - 3)..(nrows - 1) : \A c \in 0..5 : ~HasGrid(table, r, c)
            /\ \A c \in 4..5 : LineAbove(table, nrows - 3, c) = DefaultColor

RECURSIVE Flatten(_)
\* the pages' rows after each page's first, in the order of the pages
Flatten(pages) ==
    IF pages = <<>> THEN <<>> ELSE Tail(Head(pages)) \o Flatten(Tail(pages))

\* C10: the item table is laid out without a layout error; every page that
\* holds rows of it starts with the header row (row 0 of the table, six
\* labels) followed by at least one more row, and the rows after the header
\* rows are rows 1, 2, ... of the table, each whole on one page, in their
\* input order.
C10_HeaderOnEveryPage ==
    returned /= NoPdf =>
        LET nrows == Len(Rows(returned))
        IN  /\ returned.error = ""
            /\ \A p \in DOMAIN returned.pages :
                 /\ Len(returned.pages[p]) >= 2
                 /\ returned.pages[p][1] = 0
            /\ Len(Rows(returned)[1]) = 6
            /\ \A c \in 1..6 : Rows(returned)[1][c].text[1].kind = "label"
            /\ Flatten(returned.pages) = [i \in 1..(nrows - 1) |-> i]

\* C10 witness: a table of two items that starts low on the first page and
\* spans three pages
C10_Witness ==
    /\ returned /= NoPdf
    /\ Len(args.items) = 2
    /\ args.room = PageHeight - 20
    /\ Len(returned.pages) = 3

\* ------------------------------------------------------------- C11
\* what a flowable is: a spacer, or a paragraph named by the kind and the
\* source of the first fragment of its text that is not markup
Tag(b) ==
    IF b.type = "Spacer" THEN <<"Spacer", "">>
    ELSE IF b.type = "Paragraph"
    THEN LET own == {i \in DOMAIN b.text : b.text[i].kind /= "markup"}
         IN  IF own = {} THEN <<"Paragraph", "">>
             ELSE LET i == CHOOSE j \in own : \A k \in own : j <= k
                  IN  <<b.text[i].kind, b.text[i].src>>
    ELSE <<b.type, "">>

\* the flowables of a document after its items table
AfterItemsTable(pdf) == SubSeq(pdf.story, 7, Len(pdf.story))

\* the blocks the fields of data call for, in the order payment, delivery,
\* accept-checks
BlocksCalledFor(data) ==
    (IF data.payment_terms /= ""
     THEN << <<"Spacer", "">>, <<"label", "payment_terms">>, <<"value", "payment_terms">> >>
     ELSE <<>>)
    \o (IF data.delivery_terms /= ""
        THEN << <<"Spacer", "">>, <<"label", "delivery_terms">>, <<"value", "delivery_terms">> >>
        ELSE <<>>)
    \o (IF data.accept_checks
        THEN << <<"Spacer", "">>, <<"label", "accept_checks">> >>
        ELSE <<>>)

\* C11: after the items table the document holds the payment-terms block
\* (spacer, heading, text) if and only if payment_terms is non-empty, the
\* delivery-terms block if and only if delivery_terms is non-empty and the
\* accept-checks block (spacer, affirmation) if and only if accept_checks is
\* true, in this order, and nothing else: an absent field adds no spacer
\* and no paragraph, and no paragraph that is there is empty.
C11_OptionalBlocksOmitted ==
    returned /= NoPdf =>
        LET after == AfterItemsTable(returned)
        IN  /\ ItemsTableOf(returned).type = "Table"
            /\ [k \in DOMAIN after |-> Tag(after[k])] = BlocksCalledFor(args.data)
            /\ \A k \in DOMAIN after :
                   after[k].type = "Paragraph" => ~Blank(after[k].text)

\* C11 witness: of a document without payment terms, with delivery terms and
\* with accepted checks, the delivery block and the affirmation follow the
\* items table
C11_Witness ==
    /\ returned /= NoPdf
    /\ args.data.payment_terms = ""
    /\ args.data.delivery_terms /= ""
    /\ args.data.accept_checks
    /\ Len(AfterItemsTable(returned)) = 5
    /\ Tag(AfterItemsTable(returned)[2]) = <<"label", "delivery_terms">>
    /\ Tag(AfterItemsTable(returned)[5]) = <<"label", "accept_checks">>

====
